---- MODULE Spec2Model ----
(***************************************************************************)
(* A model of the private blockchain of src/src/blockchain.js: the chain   *)
(* array, the cached height, the wall clock, and every method of the       *)
(* Blockchain class.  The Block class (src/block.js) is not part of the    *)
(* sources at hand; its constructor, validate() and getBData() follow the  *)
(* written specification (sections 3 and 4.1).                             *)
(*                                                                         *)
(* Hashes.  SHA256 is modelled as a collision-free digest: the digest of a *)
(* text is a tagged copy of that text, so two digests are equal exactly    *)
(* when their preimages are.  JSON.stringify(block) is the tuple of the    *)
(* five fields of the block in declaration order.                          *)
(***************************************************************************)
EXTENDS Integers, Sequences, FiniteSets, TLC

VARIABLES chain, height, now, result, tamperLog, pending

vars == <<chain, height, now, result, tamperLog, pending>>

----------------------------------------------------------------------------
(* Bounds of the model *)

MaxChain == 3
MaxTicks == 1
MaxTampers == 1
MaxInFlight == 2
StartTime == 1000

(* Program constants *)

VALIDATION_TIMEOUT_SECONDS == 5 * 60

----------------------------------------------------------------------------
(* Values *)

Null == <<>>
Undefined == "undefined"
\* the undefined that an array read or a failed find yields in place of a block
Absent == [absent |-> TRUE]

Addresses == {"addrA", "addrB"}
Stars == {"star1", "star2"}

\* A payload is a JavaScript value seen through the properties the code reads:
\* a string literal has no owner and no star.
Literal(text) == [lit |-> text, owner |-> Undefined, star |-> Undefined]
Claim(address, star) == [lit |-> "", owner |-> address, star |-> star]

GenesisData == Literal("Genesis Block")
FooData == Literal("foo")

\* the challenge string address:timestamp:starRegistry
Message(address, time) == [addr |-> address, time |-> time, tag |-> "starRegistry"]

\* the ages of the challenge strings a caller submits
ChallengeAges == {-1, 0, VALIDATION_TIMEOUT_SECONDS, VALIDATION_TIMEOUT_SECONDS + 1}

\* the challenge strings a caller with this address submits: the ones that
\* requestMessageOwnershipVerification gave it, at each age
Messages(address) == {Message(address, now - e) : e \in ChallengeAges}

\* a signature made by the wallet of signer over msg
Sign(signer, msg) == [signer |-> signer, msg |-> msg]

Signatures(msg) == {Sign(a, msg) : a \in Addresses}

----------------------------------------------------------------------------
(* External collaborators *)

SHA256(text) == <<"sha256", text>>

Stringify(block) ==
    <<block.hash, block.height, block.body, block.time, block.previousBlockHash>>

\* bitcoinMessage.verify(message, address, signature)
Verify(message, address, signature) ==
    signature.signer = address /\ signature.msg = message

\* message.split(":")[1] parsed as a decimal integer
MessageTime(message) == message.time

----------------------------------------------------------------------------
(* Record (block.js) *)

\* hex encoding of the JSON text of the payload, and its decoding
Encode(data) == [hex |-> data]
Decode(body) == body.hex

Block(data) ==
    [hash |-> Null, height |-> 0, body |-> Encode(data), time |-> 0,
     previousBlockHash |-> Null]

\* digest of the record's fields, the hash field left out
ComputeHash(block) == SHA256(Stringify([block EXCEPT !.hash = Null]))

Validate(block) == block.hash = ComputeHash(block)

GetBData(block) == Decode(block.body)

----------------------------------------------------------------------------
(* Ledger (blockchain.js) *)

NoResult == [op |-> "none", args |-> <<>>, status |-> "none", value |-> Null]

Resolved(op, args, value) ==
    [op |-> op, args |-> args, status |-> "resolved", value |-> value]

Rejected(op, args, error) ==
    [op |-> op, args |-> args, status |-> "rejected", value |-> error]

ExpiredChallenge == "Star should be submitted within 5 minutes."
InvalidSignature == "Invalid signature."

\* _addBlock numbering the block with the cached height itself
AddBlockTo_HeightNotAdvanced(c, h, t, block) ==
    LET b1 == [block EXCEPT !.height = h, !.time = t]
        b2 == IF Len(c) > 0
              THEN [b1 EXCEPT !.previousBlockHash = c[Len(c)].hash]
              ELSE b1
        b3 == [b2 EXCEPT !.hash = SHA256(Stringify(b2))]
    IN  [chain |-> Append(c, b3), height |-> h + 1, block |-> b3]

\* _addBlock with the height assignment moved behind the push: the block is
\* hashed with the height its constructor gave it, and numbered from the cache
\* after the increment
AddBlockTo_HeightAfterPush(c, h, t, block) ==
    LET b1 == [block EXCEPT !.time = t]
        b2 == IF Len(c) > 0
              THEN [b1 EXCEPT !.previousBlockHash = c[Len(c)].hash]
              ELSE b1
        b3 == [b2 EXCEPT !.hash = SHA256(Stringify(b2))]
        b4 == [b3 EXCEPT !.height = (h + 1) + 1]
    IN  [chain |-> Append(c, b4), height |-> h + 1, block |-> b4]

\* _addBlock putting the block at the front of the array (unshift for push)
AddBlockTo_Unshift(c, h, t, block) ==
    LET b1 == [block EXCEPT !.height = h + 1, !.time = t]
        b2 == IF Len(c) > 0
              THEN [b1 EXCEPT !.previousBlockHash = c[Len(c)].hash]
              ELSE b1
        b3 == [b2 EXCEPT !.hash = SHA256(Stringify(b2))]
    IN  [chain |-> <<b3>> \o c, height |-> h + 1, block |-> b3]

\* _addBlock linking a block only when the chain has more than one block
AddBlockTo_LinkSkipsFirst(c, h, t, block) ==
    LET b1 == [block EXCEPT !.height = h + 1, !.time = t]
        b2 == IF Len(c) > 1
              THEN [b1 EXCEPT !.previousBlockHash = c[Len(c)].hash]
              ELSE b1
        b3 == [b2 EXCEPT !.hash = SHA256(Stringify(b2))]
    IN  [chain |-> Append(c, b3), height |-> h + 1, block |-> b3]

\* _addBlock that forgets to update the cached height
AddBlockTo_HeightCacheStale(c, h, t, block) ==
    LET b1 == [block EXCEPT !.height = h + 1, !.time = t]
        b2 == IF Len(c) > 0
              THEN [b1 EXCEPT !.previousBlockHash = c[Len(c)].hash]
              ELSE b1
        b3 == [b2 EXCEPT !.hash = SHA256(Stringify(b2))]
    IN  [chain |-> Append(c, b3), height |-> h, block |-> b3]

\* _addBlock on a ledger with chain c and cached height h, at clock time t
AddBlockTo(c, h, t, block) ==
    LET b1 == [block EXCEPT !.height = h + 1, !.time = t]
        b2 == IF Len(c) > 0
              THEN [b1 EXCEPT !.previousBlockHash = c[Len(c)].hash]
              ELSE b1
        b3 == [b2 EXCEPT !.hash = SHA256(Stringify(b2))]
    IN  [chain |-> Append(c, b3), height |-> h + 1, block |-> b3]

\* initializeChain without the test of the cached height
InitializeChainOn_NoGuard(c, h, t) ==
    AddBlockTo(c, h, t, Block(GenesisData))

\* initializeChain on a ledger with chain c and cached height h
InitializeChainOn(c, h, t) ==
    IF h = -1
    THEN AddBlockTo(c, h, t, Block(GenesisData))
    ELSE [chain |-> c, height |-> h, block |-> Null]

\* a constructor that leaves the genesis block to a later initializeChain
Constructed_Deferred(t) == [chain |-> <<>>, height |-> -1, block |-> Null]

\* new Blockchain()
Constructed(t) == InitializeChainOn(<<>>, -1, t)

Init ==
    /\ now = StartTime
    /\ chain = Constructed(now).chain
    /\ height = Constructed(now).height
    /\ result = NoResult
    /\ tamperLog = <<>>
    /\ pending = <<>>

InitializeChain ==
    LET r == InitializeChainOn(chain, height, now)
    IN  /\ chain' = r.chain
        /\ height' = r.height
        /\ result' = Resolved("initializeChain", <<>>, Undefined)
        /\ UNCHANGED <<now, tamperLog, pending>>

GetChainHeight ==
    /\ result' = Resolved("getChainHeight", <<>>, height)
    /\ UNCHANGED <<chain, height, now, tamperLog, pending>>

AddBlock(data) ==
    /\ Len(chain) < MaxChain
    /\ LET r == AddBlockTo(chain, height, now, Block(data))
       IN  /\ chain' = r.chain
           /\ height' = r.height
           /\ result' = Resolved("_addBlock", <<data>>, r.block)
    /\ UNCHANGED <<now, tamperLog, pending>>

RequestMessageOwnershipVerification(address) ==
    /\ result' = Resolved("requestMessageOwnershipVerification", <<address>>,
                          Message(address, now))
    /\ UNCHANGED <<chain, height, now, tamperLog, pending>>

\* submitStar verifying the signature before it looks at the clock
SubmitStar_SignatureFirst(address, message, signature, star) ==
    LET messageTime == MessageTime(message)
        currentTime == now
        args == <<address, message, signature, star>>
    IN  IF ~Verify(message, address, signature)
        THEN /\ result' = Rejected("submitStar", args, InvalidSignature)
             /\ UNCHANGED <<chain, height, now, tamperLog, pending>>
        ELSE IF currentTime - messageTime > VALIDATION_TIMEOUT_SECONDS
        THEN /\ result' = Rejected("submitStar", args, ExpiredChallenge)
             /\ UNCHANGED <<chain, height, now, tamperLog, pending>>
        ELSE /\ Len(chain) < MaxChain
             /\ LET r == AddBlockTo(chain, height, now,
                                    Block(Claim(address, star)))
                IN  /\ chain' = r.chain
                    /\ height' = r.height
                    /\ result' = Resolved("submitStar", args, r.block)
             /\ UNCHANGED <<now, tamperLog, pending>>

\* submitStar adding the block before it rejects a bad signature
SubmitStar_AppendThenVerify(address, message, signature, star) ==
    LET messageTime == MessageTime(message)
        currentTime == now
        args == <<address, message, signature, star>>
    IN  IF currentTime - messageTime > VALIDATION_TIMEOUT_SECONDS
        THEN /\ result' = Rejected("submitStar", args, ExpiredChallenge)
             /\ UNCHANGED <<chain, height, now, tamperLog, pending>>
        ELSE /\ Len(chain) < MaxChain
             /\ LET r == AddBlockTo(chain, height, now,
                                    Block(Claim(address, star)))
                IN  /\ chain' = r.chain
                    /\ height' = r.height
                    /\ result' = IF ~Verify(message, address, signature)
                                  THEN Rejected("submitStar", args, InvalidSignature)
                                  ELSE Resolved("submitStar", args, r.block)
             /\ UNCHANGED <<now, tamperLog, pending>>

\* submitStar building the payload without the star
SubmitStar_StarDropped(address, message, signature, star) ==
    LET messageTime == MessageTime(message)
        currentTime == now
        args == <<address, message, signature, star>>
    IN  IF currentTime - messageTime > VALIDATION_TIMEOUT_SECONDS
        THEN /\ result' = Rejected("submitStar", args, ExpiredChallenge)
             /\ UNCHANGED <<chain, height, now, tamperLog, pending>>
        ELSE IF ~Verify(message, address, signature)
        THEN /\ result' = Rejected("submitStar", args, InvalidSignature)
             /\ UNCHANGED <<chain, height, now, tamperLog, pending>>
        ELSE /\ Len(chain) < MaxChain
             /\ LET r == AddBlockTo(chain, height, now,
                                    Block(Claim(address, Undefined)))
                IN  /\ chain' = r.chain
                    /\ height' = r.height
                    /\ result' = Resolved("submitStar", args, r.block)
             /\ UNCHANGED <<now, tamperLog, pending>>

\* submitStar rejecting a challenge as soon as its age reaches the window
SubmitStar_WindowInclusive(address, message, signature, star) ==
    LET messageTime == MessageTime(message)
        currentTime == now
        args == <<address, message, signature, star>>
    IN  IF currentTime - messageTime >= VALIDATION_TIMEOUT_SECONDS
        THEN /\ result' = Rejected("submitStar", args, ExpiredChallenge)
             /\ UNCHANGED <<chain, height, now, tamperLog, pending>>
        ELSE IF ~Verify(message, address, signature)
        THEN /\ result' = Rejected("submitStar", args, InvalidSignature)
             /\ UNCHANGED <<chain, height, now, tamperLog, pending>>
        ELSE /\ Len(chain) < MaxChain
             /\ LET r == AddBlockTo(chain, height, now,
                                    Block(Claim(address, star)))
                IN  /\ chain' = r.chain
                    /\ height' = r.height
                    /\ result' = Resolved("submitStar", args, r.block)
             /\ UNCHANGED <<now, tamperLog, pending>>

SubmitStar(address, message, signature, star) ==
    LET messageTime == MessageTime(message)
        currentTime == now
        args == <<address, message, signature, star>>
    IN  IF currentTime - messageTime > VALIDATION_TIMEOUT_SECONDS
        THEN /\ result' = Rejected("submitStar", args, ExpiredChallenge)
             /\ UNCHANGED <<chain, height, now, tamperLog, pending>>
        ELSE IF ~Verify(message, address, signature)
        THEN /\ result' = Rejected("submitStar", args, InvalidSignature)
             /\ UNCHANGED <<chain, height, now, tamperLog, pending>>
        ELSE /\ Len(chain) < MaxChain
             /\ LET r == AddBlockTo(chain, height, now,
                                    Block(Claim(address, star)))
                IN  /\ chain' = r.chain
                    /\ height' = r.height
                    /\ result' = Resolved("submitStar", args, r.block)
             /\ UNCHANGED <<now, tamperLog, pending>>

\* Array.prototype.find: the first of the elements at the (1-based) indices
\* hits, the ones that satisfy the test; undefined when there is none
Find(c, hits) ==
    IF hits = {} THEN Absent
    ELSE c[CHOOSE i \in hits : \A j \in hits : i <= j]

BlockByHash(c, hash) ==
    Find(c, {i \in 1..Len(c) : c[i].hash = hash})

\* the lookup by height comparing against height + 1
BlockByHeight_OffByOne(c, h) ==
    Find(c, {i \in 1..Len(c) : c[i].height = h + 1})

BlockByHeight(c, h) ==
    Find(c, {i \in 1..Len(c) : c[i].height = h})

GetBlockByHash(hash) ==
    /\ result' = Resolved("getBlockByHash", <<hash>>, BlockByHash(chain, hash))
    /\ UNCHANGED <<chain, height, now, tamperLog, pending>>

GetBlockByHeight(h) ==
    /\ result' = Resolved("getBlockByHeight", <<h>>, BlockByHeight(chain, h))
    /\ UNCHANGED <<chain, height, now, tamperLog, pending>>

\* the filter on the owner over chain.slice(2)
StarsByWalletAddress_SliceTwo(c, address) ==
    LET blocksData == [i \in 1..(Len(c) - 2) |-> GetBData(c[i + 2])]
        Test(blockData) == blockData.owner = address
    IN  SelectSeq(blocksData, Test)

\* chain.slice(1).map(getBData) filtered on the owner
StarsByWalletAddress(c, address) ==
    LET blocksData == [i \in 1..(Len(c) - 1) |-> GetBData(c[i + 1])]
        Test(blockData) == blockData.owner = address
    IN  SelectSeq(blocksData, Test)

GetStarsByWalletAddress(address) ==
    /\ result' = Resolved("getStarsByWalletAddress", <<address>>,
                          StarsByWalletAddress(chain, address))
    /\ UNCHANGED <<chain, height, now, tamperLog, pending>>

\* this.chain[i] of JavaScript, indices from 0, undefined outside the array
At(c, i) == IF i >= 0 /\ i < Len(c) THEN c[i + 1] ELSE Absent

\* the filter of validateChain with the validity test the wrong way round
InErrorLog_ValidKept(c, index) ==
    LET block == At(c, index)
        nextBlock == At(c, block.height + 1)
    IN  IF ~Validate(block)
        THEN FALSE
        ELSE /\ nextBlock # Absent
             /\ nextBlock.previousBlockHash # block.hash

\* the test of the filter of validateChain, for the block at (0-based) index
InErrorLog(c, index) ==
    LET block == At(c, index)
        nextBlock == At(c, block.height + 1)
    IN  IF Validate(block)
        THEN FALSE
        ELSE /\ nextBlock # Absent
             /\ nextBlock.previousBlockHash # block.hash

RECURSIVE FilterFrom(_, _)
FilterFrom(c, index) ==
    IF index >= Len(c) THEN <<>>
    ELSE (IF InErrorLog(c, index) THEN <<At(c, index)>> ELSE <<>>)
         \o FilterFrom(c, index + 1)

ValidateChain(c) == FilterFrom(c, 0)

\* validateChain keeping only the blocks it did not report
ValidateChainOp_DropsReported ==
    /\ result' = Resolved("validateChain", <<>>, ValidateChain(chain))
    /\ chain' = SelectSeq(chain, LAMBDA block : \A k \in 1..Len(ValidateChain(chain)) :
                                                ValidateChain(chain)[k] # block)
    /\ UNCHANGED <<height, now, tamperLog, pending>>

ValidateChainOp ==
    /\ result' = Resolved("validateChain", <<>>, ValidateChain(chain))
    /\ UNCHANGED <<chain, height, now, tamperLog, pending>>

\* the wall clock advances
Tick ==
    /\ now < StartTime + MaxTicks
    /\ now' = now + 1
    /\ UNCHANGED <<chain, height, result, tamperLog, pending>>

Next ==
    \/ InitializeChain
    \/ GetChainHeight
    \/ AddBlock(FooData)
    \/ \E address \in Addresses : RequestMessageOwnershipVerification(address)
    \/ \E address \in Addresses, star \in Stars :
          \E message \in Messages(address) :
             \E signature \in Signatures(message) :
                SubmitStar(address, message, signature, star)
    \/ \E i \in 1..Len(chain) : GetBlockByHash(chain[i].hash)
    \/ GetBlockByHash(SHA256(<<"invalid hash">>))
    \/ \E h \in -1..MaxChain : GetBlockByHeight(h)
    \/ \E address \in Addresses : GetStarsByWalletAddress(address)
    \/ ValidateChainOp
    \/ Tick

Spec == Init /\ [][Next]_vars

----------------------------------------------------------------------------
(* External mutation of a stored block, as the test does with blocks[1].hash *)

InvalidHash == SHA256(<<"invalid hash">>)

TamperValues(field) ==
    CASE field = "height" -> {0, MaxChain}
      [] field = "time" -> {0}
      [] field = "previousBlockHash" -> {InvalidHash}
      [] field = "body" -> {Encode(Literal("bar"))}
      [] field = "hash" -> {InvalidHash}

Fields == {"height", "time", "previousBlockHash", "body", "hash"}

Field(block, field) ==
    CASE field = "height" -> block.height
      [] field = "time" -> block.time
      [] field = "previousBlockHash" -> block.previousBlockHash
      [] field = "body" -> block.body
      [] field = "hash" -> block.hash

SetField(block, field, value) ==
    CASE field = "height" -> [block EXCEPT !.height = value]
      [] field = "time" -> [block EXCEPT !.time = value]
      [] field = "previousBlockHash" -> [block EXCEPT !.previousBlockHash = value]
      [] field = "body" -> [block EXCEPT !.body = value]
      [] field = "hash" -> [block EXCEPT !.hash = value]

\* overwrite one field of the block at (0-based) index with a different value
Tamper(index, field, value) ==
    /\ Len(tamperLog) < MaxTampers
    /\ value # Field(At(chain, index), field)
    /\ chain' = [chain EXCEPT ![index + 1] = SetField(@, field, value)]
    /\ tamperLog' = Append(tamperLog,
                           [index |-> index, field |-> field,
                            terminal |-> (index = Len(chain) - 1)])
    /\ UNCHANGED <<height, now, result, pending>>

TamperNext ==
    \/ Next
    \/ \E index \in 0..(Len(chain) - 1), field \in Fields :
          \E value \in TamperValues(field) : Tamper(index, field, value)

TamperSpec == Init /\ [][TamperNext]_vars

----------------------------------------------------------------------------
(* Calls whose promise nobody has awaited yet.  A method runs up to its      *)
(* first await, or to its return, inside the call; what is left for later   *)
(* is the settlement of the promise it returned.  pending holds those       *)
(* promises in the order of the calls; Spec awaits each call at once and    *)
(* keeps pending empty.                                                     *)

\* new Blockchain(): the constructor calls initializeChain and drops its promise
ConcurrentInit ==
    /\ now = StartTime
    /\ chain = Constructed(now).chain
    /\ height = Constructed(now).height
    /\ result = NoResult
    /\ tamperLog = <<>>
    /\ pending = <<Resolved("initializeChain", <<>>, Undefined)>>

IssueInitializeChain ==
    /\ Len(pending) < MaxInFlight
    /\ LET r == InitializeChainOn(chain, height, now)
       IN  /\ chain' = r.chain
           /\ height' = r.height
    /\ pending' = Append(pending, Resolved("initializeChain", <<>>, Undefined))
    /\ UNCHANGED <<now, result, tamperLog>>

\* an _addBlock that suspends between reading the ledger and the push: issued
\* while another append is in flight, it works from the snapshot that one read
IssueAddBlock_StaleSnapshot(data) ==
    /\ Len(pending) < MaxInFlight
    /\ Len(chain) < MaxChain
    /\ LET last == pending[Len(pending)]
           stale == /\ pending # <<>>
                    /\ last.op = "_addBlock"
           c == IF stale THEN SubSeq(chain, 1, Len(chain) - 1) ELSE chain
           h == IF stale THEN height - 1 ELSE height
           r == AddBlockTo(c, h, now, Block(data))
       IN  /\ chain' = Append(chain, r.block)
           /\ height' = r.height
           /\ pending' = Append(pending, Resolved("_addBlock", <<data>>, r.block))
    /\ UNCHANGED <<now, result, tamperLog>>

\* this.blockchain._addBlock(block) inside Promise.all
IssueAddBlock(data) ==
    /\ Len(pending) < MaxInFlight
    /\ Len(chain) < MaxChain
    /\ LET r == AddBlockTo(chain, height, now, Block(data))
       IN  /\ chain' = r.chain
           /\ height' = r.height
           /\ pending' = Append(pending, Resolved("_addBlock", <<data>>, r.block))
    /\ UNCHANGED <<now, result, tamperLog>>

AlreadyUsed == "Challenge already used."

\* a submitStar that takes a challenge once: it refuses a challenge issued
\* before a block that the same address already owns
IssueSubmitStar_SingleUse(address, message, signature, star) ==
    LET messageTime == MessageTime(message)
        currentTime == now
        args == <<address, message, signature, star>>
        used == \E i \in 2..Len(chain) :
                   /\ GetBData(chain[i]).owner = address
                   /\ chain[i].time >= messageTime
    IN  /\ Len(pending) < MaxInFlight
        /\ IF currentTime - messageTime > VALIDATION_TIMEOUT_SECONDS
           THEN /\ pending' = Append(pending,
                                     Rejected("submitStar", args, ExpiredChallenge))
                /\ UNCHANGED <<chain, height>>
           ELSE IF ~Verify(message, address, signature)
           THEN /\ pending' = Append(pending,
                                     Rejected("submitStar", args, InvalidSignature))
                /\ UNCHANGED <<chain, height>>
           ELSE IF used
           THEN /\ pending' = Append(pending,
                                     Rejected("submitStar", args, AlreadyUsed))
                /\ UNCHANGED <<chain, height>>
           ELSE /\ Len(chain) < MaxChain
                /\ LET r == AddBlockTo(chain, height, now,
                                       Block(Claim(address, star)))
                   IN  /\ chain' = r.chain
                       /\ height' = r.height
                       /\ pending' = Append(pending,
                                            Resolved("submitStar", args, r.block))
        /\ UNCHANGED <<now, result, tamperLog>>

IssueSubmitStar(address, message, signature, star) ==
    LET messageTime == MessageTime(message)
        currentTime == now
        args == <<address, message, signature, star>>
    IN  /\ Len(pending) < MaxInFlight
        /\ IF currentTime - messageTime > VALIDATION_TIMEOUT_SECONDS
           THEN /\ pending' = Append(pending,
                                     Rejected("submitStar", args, ExpiredChallenge))
                /\ UNCHANGED <<chain, height>>
           ELSE IF ~Verify(message, address, signature)
           THEN /\ pending' = Append(pending,
                                     Rejected("submitStar", args, InvalidSignature))
                /\ UNCHANGED <<chain, height>>
           ELSE /\ Len(chain) < MaxChain
                /\ LET r == AddBlockTo(chain, height, now,
                                       Block(Claim(address, star)))
                   IN  /\ chain' = r.chain
                       /\ height' = r.height
                       /\ pending' = Append(pending,
                                            Resolved("submitStar", args, r.block))
        /\ UNCHANGED <<now, result, tamperLog>>

\* the oldest promise settles and its caller sees the outcome
Settle ==
    /\ pending # <<>>
    /\ result' = Head(pending)
    /\ pending' = Tail(pending)
    /\ UNCHANGED <<chain, height, now, tamperLog>>

\* the challenge strings submitted without awaiting: one inside the window,
\* at its last second, and one past it
InFlightMessages ==
    {Message("addrA", now - e) :
        e \in {VALIDATION_TIMEOUT_SECONDS, VALIDATION_TIMEOUT_SECONDS + 1}}

ConcurrentNext ==
    \/ IssueInitializeChain
    \/ IssueAddBlock(FooData)
    \/ \E message \in InFlightMessages :
          \E signature \in Signatures(message) :
             IssueSubmitStar("addrA", message, signature, "star1")
    \/ Settle
    \/ ValidateChainOp
    \/ Tick

ConcurrentSpec == ConcurrentInit /\ [][ConcurrentNext]_vars

----------------------------------------------------------------------------
(* Properties *)

InSeq(x, s) == \E k \in 1..Len(s) : s[k] = x

\* the stored hash differs from the hash recomputed over the current fields
SelfFails(c, i) == c[i].hash # ComputeHash(c[i])

\* a successor exists and its back link does not name this record
LinkFails(c, i) == i < Len(c) /\ c[i + 1].previousBlockHash # c[i].hash

RECURSIVE FailingFrom(_, _)
FailingFrom(c, i) ==
    IF i > Len(c) THEN <<>>
    ELSE (IF SelfFails(c, i) \/ LinkFails(c, i) THEN <<c[i]>> ELSE <<>>)
         \o FailingFrom(c, i + 1)

\* exactly one field of one record was overwritten, and that record was not
\* the last one of the chain
OneTamperNonTerminal ==
    /\ Len(tamperLog) = 1
    /\ ~tamperLog[1].terminal

TamperedBlock == chain[tamperLog[1].index + 1]

\* C1: after a single field of a non-terminal record is changed to another
\* value, that record is in the list validateChain returns.
C1_TamperDetected ==
    OneTamperNonTerminal => InSeq(TamperedBlock, ValidateChain(chain))

\* C2: validateChain returns, in chain order and once each, exactly the
\* records whose self check fails or whose successor's back link is broken.
C2_ErrorLogExact == ValidateChain(chain) = FailingFrom(chain, 1)

\* C3: a chain made by the constructor and appends alone, never mutated from
\* outside, validates to the empty list.
C3_UntamperedChainValid ==
    tamperLog = <<>> => ValidateChain(chain) = <<>>

C3_Witness ==
    /\ tamperLog = <<>>
    /\ Len(chain) = MaxChain
    /\ \E i \in 1..Len(chain) : GetBData(chain[i]).owner \in Addresses
    /\ result.op = "validateChain"
    /\ result.value = <<>>

\* C4: after only the hash of one appended, non-terminal record is replaced
\* by another digest, validateChain returns that record and no other.
C4_HashTamperOnlyThatRecord ==
    (/\ OneTamperNonTerminal
     /\ tamperLog[1].field = "hash"
     /\ tamperLog[1].index >= 1)
    => ValidateChain(chain) = <<TamperedBlock>>

C4_Witness ==
    /\ OneTamperNonTerminal
    /\ tamperLog[1].field = "hash"
    /\ tamperLog[1].index >= 1
    /\ TamperedBlock.hash = InvalidHash
    /\ result.op = "validateChain"
    /\ result.value = <<TamperedBlock>>

\* the elapsed time submitStar computes for a challenge string
Elapsed(message) == now - MessageTime(message)

\* In the three step properties below the arguments of the call are read
\* from the settled promise, which every submitStar step labels with them.

\* C5: a submitStar whose challenge is more than 300 seconds old is rejected
\* as expired, whether or not its signature verifies, and leaves the chain
\* and the cached height as they were.
C5_ExpiredRejected ==
    [][result'.op = "submitStar" =>
         LET address == result'.args[1]
             message == result'.args[2]
             signature == result'.args[3]
             star == result'.args[4]
         IN
         (/\ Elapsed(message) > VALIDATION_TIMEOUT_SECONDS
          /\ SubmitStar(address, message, signature, star))
         => /\ result'.status = "rejected"
            /\ result'.value = ExpiredChallenge
            /\ chain' = chain
            /\ height' = height]_vars

C5_Witness ==
    /\ result.op = "submitStar"
    /\ result.status = "rejected"
    /\ result.value = ExpiredChallenge
    /\ Verify(result.args[2], result.args[1], result.args[3])
    /\ Len(chain) > 1

\* C6: a submitStar inside the window whose signature does not verify is
\* rejected as an invalid signature and appends nothing: chain, chain length
\* and cached height stay the same.
C6_BadSignatureRejected ==
    [][result'.op = "submitStar" =>
         LET address == result'.args[1]
             message == result'.args[2]
             signature == result'.args[3]
             star == result'.args[4]
         IN
         (/\ Elapsed(message) <= VALIDATION_TIMEOUT_SECONDS
          /\ ~Verify(message, address, signature)
          /\ SubmitStar(address, message, signature, star))
         => /\ result'.status = "rejected"
            /\ result'.value = InvalidSignature
            /\ chain' = chain
            /\ Len(chain') = Len(chain)
            /\ height' = height]_vars

C6_Witness ==
    /\ result.op = "submitStar"
    /\ result.status = "rejected"
    /\ result.value = InvalidSignature
    /\ ~Verify(result.args[2], result.args[1], result.args[3])
    /\ Len(chain) > 1

\* C7: whatever the number of initializeChain calls and the other operations
\* between them, the chain has exactly one record at height 0 and exactly
\* one genesis record.
C7_GenesisUnique ==
    /\ Cardinality({i \in 1..Len(chain) : chain[i].height = 0}) = 1
    /\ Cardinality({i \in 1..Len(chain) :
                       chain[i].body = Block(GenesisData).body}) = 1

C7_Witness ==
    /\ result.op = "initializeChain"
    /\ Len(chain) > 1
    /\ chain[1].body = Block(GenesisData).body

\* C8: the record at index i of the chain has height i (indices from 0).
C8_HeightIsIndex ==
    \A i \in 1..Len(chain) : chain[i].height = i - 1

C8_Witness ==
    /\ Len(chain) = MaxChain
    /\ result.op \in {"_addBlock", "submitStar"}
    /\ result.status = "resolved"
    /\ result.value.height = MaxChain - 1

\* C9: a submitStar inside the window with a verifying signature appends one
\* record at the end of the chain, with payload {owner: address, star}, and
\* returns it; chain length and cached height grow by one.
C9_ValidSubmitAppends ==
    [][result'.op = "submitStar" =>
         LET address == result'.args[1]
             message == result'.args[2]
             signature == result'.args[3]
             star == result'.args[4]
         IN
         (/\ Elapsed(message) <= VALIDATION_TIMEOUT_SECONDS
          /\ Verify(message, address, signature)
          /\ SubmitStar(address, message, signature, star))
         => /\ result'.status = "resolved"
            /\ chain' = Append(chain, result'.value)
            /\ Len(chain') = Len(chain) + 1
            /\ height' = height + 1
            /\ result'.value.body = Block(Claim(address, star)).body]_vars

C9_Witness ==
    /\ result.op = "submitStar"
    /\ result.status = "resolved"
    /\ Len(chain) = MaxChain
    /\ chain[Len(chain)] = result.value
    /\ result.value.body = Block(Claim(result.args[1], result.args[4])).body

\* the indices (from 1) of the records after genesis that address owns
OwnedBy(address) ==
    {i \in 2..Len(chain) : GetBData(chain[i]).owner = address}

\* the k-th smallest element of a set of indices
Kth(S, k) == CHOOSE i \in S : Cardinality({j \in S : j <= i}) = k

\* C10: getStarsByWalletAddress(address) returns the payloads of exactly the
\* records after genesis whose owner is address, one for each, in the order
\* they were appended, and never the genesis payload.
C10_OwnerFilter ==
    result.op = "getStarsByWalletAddress" =>
        LET owned == OwnedBy(result.args[1])
        IN  /\ Len(result.value) = Cardinality(owned)
            /\ \A k \in 1..Len(result.value) :
                  /\ result.value[k] = GetBData(chain[Kth(owned, k)])
                  /\ result.value[k] # GenesisData

C10_Witness ==
    /\ result.op = "getStarsByWalletAddress"
    /\ Len(result.value) = 1
    /\ result.value[1].owner = result.args[1]
    /\ \E i \in 2..Len(chain) :
          GetBData(chain[i]).owner \in Addresses \ {result.args[1]}

\* C11: every step of the ledger keeps the chain it had as a prefix of the
\* chain it has afterwards: no record is removed, moved or replaced, and no
\* field of a stored record changes.
C11_AppendOnly ==
    [][/\ Len(chain') >= Len(chain)
       /\ \A i \in 1..Len(chain) : chain'[i] = chain[i]]_vars

C11_Witness ==
    /\ Len(chain) = MaxChain
    /\ result.op \in {"_addBlock", "submitStar"}
    /\ result.status = "resolved"
    /\ chain[Len(chain)] = result.value
    /\ chain[1].body = Block(GenesisData).body

\* C12: on an untampered chain getBlockByHeight(h) returns the record stored
\* at index h when 0 <= h <= cached height, and nothing (undefined, no
\* error) for any other h.
C12_ByHeight ==
    (tamperLog = <<>> /\ result.op = "getBlockByHeight") =>
        LET h == result.args[1]
        IN  /\ result.status = "resolved"
            /\ IF 0 <= h /\ h <= height
               THEN result.value = chain[h + 1]
               ELSE result.value = Absent

C12_Witness ==
    /\ tamperLog = <<>>
    /\ result.op = "getBlockByHeight"
    /\ result.args[1] = height
    /\ height >= 1
    /\ result.value = chain[Len(chain)]

\* C14: with ledger operations alone, the first record is the genesis record
\* with an empty previousBlockHash, and every later record names the hash of
\* the record before it.
C14_Linked ==
    tamperLog = <<>> =>
        /\ Len(chain) >= 1
        /\ chain[1].body = Block(GenesisData).body
        /\ chain[1].previousBlockHash = Null
        /\ \A i \in 2..Len(chain) : chain[i].previousBlockHash = chain[i - 1].hash

C14_Witness ==
    /\ tamperLog = <<>>
    /\ Len(chain) = MaxChain
    /\ chain[MaxChain].previousBlockHash = chain[MaxChain - 1].hash
    /\ chain[MaxChain].previousBlockHash # Null

\* C15: after only the previousBlockHash of a record other than genesis is
\* replaced by a value that is not its predecessor's hash, validateChain
\* returns a list that is not empty.
C15_LinkTamperDetected ==
    (/\ Len(tamperLog) = 1
     /\ tamperLog[1].field = "previousBlockHash"
     /\ tamperLog[1].index >= 1
     /\ TamperedBlock.previousBlockHash # chain[tamperLog[1].index].hash)
    => ValidateChain(chain) # <<>>

ReadOps ==
    {"requestMessageOwnershipVerification", "getBlockByHash", "getBlockByHeight",
     "getStarsByWalletAddress", "getChainHeight", "validateChain"}

\* the step is the call of the read operation that result' is labelled with
ReadStep ==
    CASE result'.op = "requestMessageOwnershipVerification" ->
            RequestMessageOwnershipVerification(result'.args[1])
      [] result'.op = "getBlockByHash" -> GetBlockByHash(result'.args[1])
      [] result'.op = "getBlockByHeight" -> GetBlockByHeight(result'.args[1])
      [] result'.op = "getStarsByWalletAddress" ->
            GetStarsByWalletAddress(result'.args[1])
      [] result'.op = "getChainHeight" -> GetChainHeight
      [] result'.op = "validateChain" -> ValidateChainOp
      [] OTHER -> FALSE

\* C20: the six read operations leave the chain, every field of every record
\* and the cached height as they were, on tampered chains too; validateChain
\* always resolves, with a list of records of the chain.
C20_ReadOnly ==
    [][(result'.op \in ReadOps /\ ReadStep) =>
         /\ chain' = chain
         /\ height' = height
         /\ result'.status = "resolved"
         /\ result'.op = "validateChain" =>
               \A k \in 1..Len(result'.value) : InSeq(result'.value[k], chain)]_vars

C20_Witness ==
    /\ tamperLog # <<>>
    /\ result.op = "validateChain"
    /\ result.status = "resolved"
    /\ result.value # <<>>
    /\ \A k \in 1..Len(result.value) : InSeq(result.value[k], chain)

\* the promises in flight that come from _addBlock calls
InFlightAppends == {k \in 1..Len(pending) : pending[k].op = "_addBlock"}

\* C13 as claimed: two appends in flight together have read the same height
\* and last hash, and their records claim the same height with the same
\* previousBlockHash.
C13_InFlightAppendsFork ==
    \A i, j \in InFlightAppends :
       i < j => /\ pending[i].value.height = pending[j].value.height
                /\ pending[i].value.previousBlockHash =
                      pending[j].value.previousBlockHash

\* C13 as amended: _addBlock runs from its first line to the push inside the
\* call, so appends issued without awaiting one another are serialized: the
\* later call gets the greater height and no two records of the chain claim
\* the same height or the same previousBlockHash.
C13_InFlightAppendsSerial ==
    /\ \A i, j \in InFlightAppends :
          i < j => /\ pending[i].value.height < pending[j].value.height
                   /\ InSeq(pending[i].value, chain)
                   /\ InSeq(pending[j].value, chain)
    /\ \A i, j \in 1..Len(chain) :
          i < j => /\ chain[i].height # chain[j].height
                   /\ chain[i].previousBlockHash # chain[j].previousBlockHash

C13_Witness ==
    /\ Len(pending) = 2
    /\ InFlightAppends = {1, 2}
    /\ pending[2].value.height = pending[1].value.height + 1
    /\ pending[2].value.previousBlockHash = pending[1].value.hash
    /\ chain[Len(chain)] = pending[2].value

\* C17: appends issued before the constructor's initializeChain has settled
\* find the genesis record already at index 0 with height 0; the first of
\* them gets height 1 and the genesis hash as previousBlockHash, and none is
\* ever placed before genesis.
C17_GenesisFirst ==
    /\ Len(chain) >= 1
    /\ chain[1].body = Block(GenesisData).body
    /\ chain[1].height = 0
    /\ \A i \in 2..Len(chain) : chain[i].body # Block(GenesisData).body
    /\ Len(chain) >= 2 => /\ chain[2].height = 1
                          /\ chain[2].previousBlockHash = chain[1].hash

C17_Witness ==
    /\ result = NoResult
    /\ Len(pending) = 2
    /\ pending[1].op = "initializeChain"
    /\ pending[2].op = "_addBlock"
    /\ Len(chain) = 2
    /\ chain[2] = pending[2].value
    /\ chain[2].height = 1

\* the submissions that have succeeded and are still at hand: the promises in
\* flight and the one settled last
Succeeded ==
    {p \in {pending[k] : k \in 1..Len(pending)} \cup {result} :
        p.op = "submitStar" /\ p.status = "resolved"}

\* C18: submitting again the address, challenge and signature of a
\* submission that succeeded, while the challenge is not expired, succeeds
\* again and appends one more record.
C18_ReplaySucceeds ==
    [][\A p \in Succeeded :
         (/\ Elapsed(p.args[2]) <= VALIDATION_TIMEOUT_SECONDS
          /\ IssueSubmitStar(p.args[1], p.args[2], p.args[3], p.args[4]))
         => LET q == pending'[Len(pending')]
            IN  /\ q.status = "resolved"
                /\ q.args = p.args
                /\ q.value # p.value
                /\ chain' = Append(chain, q.value)
                /\ InSeq(p.value, chain')]_vars

C18_Witness ==
    /\ Len(pending) = 2
    /\ pending[1] \in Succeeded
    /\ pending[2] \in Succeeded
    /\ pending[1].args = pending[2].args
    /\ pending[1].value # pending[2].value
    /\ chain[Len(chain) - 1] = pending[1].value
    /\ chain[Len(chain)] = pending[2].value

====
